---- MODULE Spec2Model ----
(***************************************************************************)
(* A model of tumblelog/models/base.py: the generic Post record, the       *)
(* BasePostType validate/save protocol and the oEmbed refresh protocol of  *)
(* BaseOembedPostType.                                                     *)
(*                                                                         *)
(* The relational store is modelled as the sets of rows of the concrete    *)
(* post type tables (rows) and of the Post table (posts).  Every write     *)
(* checks the unique constraints the field declarations put on the table   *)
(* and is durable on its own: save() opens no transaction.                 *)
(***************************************************************************)
EXTENDS Integers, FiniteSets, Sequences, TLC

(* ---------------------------------------------------------------------- *)
(* Bounds                                                                  *)
(* ---------------------------------------------------------------------- *)
MaxTime == 3

\* The largest primary key handed out where rows are deleted.
MaxId == 3

(* ---------------------------------------------------------------------- *)
(* Values                                                                  *)
(* ---------------------------------------------------------------------- *)
\* None for a nullable foreign key, a nullable timestamp and an unset pk.
None == 0

\* In-memory content item instances and the concrete model each belongs to.
Items == {"A1", "A2", "L1"}

\* The in-memory instance of an oEmbed-backed item, a BaseOembedPhoto.
OembedItem == "P1"

AllItems == Items \cup {OembedItem}

PostTypeOf(i) ==
    IF i = "L1" THEN "Link" ELSE IF i = OembedItem THEN "Photo" ELSE "Article"

\* The empty string is what a SlugField holds when no slug was given.
EmptySlug == ""

Slugs == {EmptySlug, "hello", "world"}

\* status: a single character, default 'd' (draft).
DefaultStatus == "d"

Statuses == {"d", "p"}

Authors == {None, 1}

PubDates == {None, 1}

VARIABLES
    mem,        \* the in-memory instance of each content item
    rows,       \* rows of the concrete post type tables
    posts,      \* rows of the Post table
    now,        \* the last reading of datetime.now()
    last,       \* the last call made and what it returned or raised
    savedOk,    \* history: the items whose save() has returned normally
    pc,         \* position of each concurrent request (SpecConc only)
    oembed,     \* the oEmbed attributes of the in-memory instance of P1
    ostore      \* the oEmbed columns of the row of P1

vars == <<mem, rows, posts, now, last, savedOk, pc, oembed, ostore>>

\* A reading of the clock taken at or after reading t.
Later(t) == {u \in {t, t + 1} : u <= MaxTime}

(* ---------------------------------------------------------------------- *)
(* The store                                                               *)
(* ---------------------------------------------------------------------- *)
Max(S) == CHOOSE x \in S : \A y \in S : y <= x

\* AutoField primary key of the next row of a concrete table.
NextRowId(R, ty) == 1 + Max({0} \cup {r.id : r \in {q \in R : q.post_type = ty}})

\* AutoField primary key of the next Post.
NextPostId(P) == 1 + Max({0} \cup {p.id : p \in P})

\* slug = SlugField(unique=True) of a concrete table: some other row of the
\* same table carries slug s.
RowSlugTaken(R, ty, s, ownId) ==
    \E r \in R : r.post_type = ty /\ r.slug = s /\ r.id # ownId

\* Post.slug declared without unique=True.
PostSlugTaken_NotUnique(P, s, ownId) == FALSE

\* Post.slug = SlugField(unique=True): some other Post carries slug s.
PostSlugTaken(P, s, ownId) ==
    \E p \in P : p.slug = s /\ p.id # ownId

\* The Posts of a content item: GenericRelation(Post, 'post_type', 'object_id').
PostsOf(P, ty, oid) == {p \in P : p.post_type = ty /\ p.object_id = oid}

\* The row an instance with primary key oid was written to.
RowsOf(R, ty, oid) == {r \in R : r.post_type = ty /\ r.id = oid}

\* A new, never saved instance.
NewItem ==
    [id |-> None, slug |-> EmptySlug, status |-> DefaultStatus,
     author |-> None, date_added |-> None, date_modified |-> None,
     date_published |-> None]

RowFor(m, ty) ==
    [post_type |-> ty, id |-> m.id, slug |-> m.slug, status |-> m.status,
     author |-> m.author, date_added |-> m.date_added,
     date_modified |-> m.date_modified, date_published |-> m.date_published]

(* ---------------------------------------------------------------------- *)
(* BasePostType.clean_fields                                               *)
(* ---------------------------------------------------------------------- *)
\* self.post.all()[0] under Meta.ordering = ['-date_published'].
FirstPost(own) == CHOOSE p \in own : \A q \in own : q.date_published <= p.date_published

\* clean_fields with the IndexError branch (no Post of its own yet) passing.
clean_fields_FirstSavePasses(m, ty, P, fieldsOk) ==
    LET matching == {p \in P : p.slug = m.slug}
        own      == PostsOf(P, ty, m.id)
    IN  IF ~fieldsOk \/ m.slug = EmptySlug THEN "FieldError"
        ELSE IF matching = {} THEN "ok"
        ELSE IF own = {} THEN "ok"
        ELSE IF matching # {FirstPost(own)} THEN "SlugExists"
        ELSE "ok"

\* fieldsOk: the outcome of the field checks of the fields the model does not
\* carry (title and the concrete type's own fields).
clean_fields(m, ty, P, fieldsOk) ==
    LET matching == {p \in P : p.slug = m.slug}
        own      == PostsOf(P, ty, m.id)
    IN  IF ~fieldsOk \/ m.slug = EmptySlug THEN "FieldError"
        ELSE IF matching = {} THEN "ok"
        ELSE IF own = {} THEN "SlugExists"
        ELSE IF matching # {FirstPost(own)} THEN "SlugExists"
        ELSE "ok"

(* ---------------------------------------------------------------------- *)
(* BasePostType.save, step by step                                         *)
(* ---------------------------------------------------------------------- *)
\* super(BasePostType, self).save(): date_added is auto_now_add, date_modified
\* is auto_now; both are set on the instance before the row is written.
SaveItem(m, ty, R, t) ==
    LET add  == m.id = None
        m1   == [m EXCEPT !.date_added = IF add THEN t ELSE @,
                          !.date_modified = t]
        m2   == [m1 EXCEPT !.id = IF add THEN NextRowId(R, ty) ELSE @]
    IN  IF RowSlugTaken(R, ty, m.slug, m.id)
        THEN [err |-> "IntegrityError", m |-> m1, rows |-> R]
        ELSE [err |-> "", m |-> m2,
              rows |-> (R \ RowsOf(R, ty, m2.id)) \cup {RowFor(m2, ty)}]

\* Post.objects.create(...) in place of get_or_create: no lookup.
get_or_create_AlwaysCreate(P, ty, oid, t) ==
    LET new == [id |-> NextPostId(P), post_type |-> ty, object_id |-> oid,
                slug |-> EmptySlug, status |-> DefaultStatus, author |-> None,
                date_added |-> t, date_modified |-> t, date_published |-> None]
    IN  IF PostSlugTaken(P, EmptySlug, new.id)
        THEN [err |-> "IntegrityError", post |-> new, created |-> FALSE, posts |-> P]
        ELSE [err |-> "", post |-> new, created |-> TRUE, posts |-> P \cup {new}]

\* Post.objects.get_or_create(post_type=..., object_id=...): a Post created
\* here carries the defaults of the Post fields.
get_or_create(P, ty, oid, t) ==
    LET own == PostsOf(P, ty, oid)
        new == [id |-> NextPostId(P), post_type |-> ty, object_id |-> oid,
                slug |-> EmptySlug, status |-> DefaultStatus, author |-> None,
                date_added |-> t, date_modified |-> t, date_published |-> None]
    IN  IF Cardinality(own) = 1
        THEN [err |-> "", post |-> CHOOSE p \in own : TRUE, created |-> FALSE, posts |-> P]
        ELSE IF Cardinality(own) > 1
        THEN [err |-> "MultipleObjectsReturned", post |-> new, created |-> FALSE, posts |-> P]
        ELSE IF PostSlugTaken(P, EmptySlug, new.id)
        THEN [err |-> "IntegrityError", post |-> new, created |-> FALSE, posts |-> P]
        ELSE [err |-> "", post |-> new, created |-> TRUE, posts |-> P \cup {new}]

\* post.status = self.status ... post.author = self.author
CopyFields(post, m) ==
    [post EXCEPT !.status = m.status, !.date_added = m.date_added,
                 !.date_modified = m.date_modified,
                 !.date_published = m.date_published,
                 !.slug = m.slug, !.author = m.author]

\* post.save(): an UPDATE of the Post row; date_modified is auto_now.
SavePost(P, post, t) ==
    LET p1 == [post EXCEPT !.date_modified = t]
    IN  IF PostSlugTaken(P, post.slug, post.id)
        THEN [err |-> "IntegrityError", posts |-> P]
        ELSE [err |-> "", posts |-> {q \in P : q.id # post.id} \cup {p1}]

\* The whole of BasePostType.save() at clock readings t1 <= t2 <= t3; clock is
\* the last reading the call got to take, written tells whether the item's row
\* was written.
save(m, ty, R, P, t1, t2, t3) ==
    LET s == SaveItem(m, ty, R, t1)
        g == get_or_create(P, ty, s.m.id, t2)
        u == SavePost(g.posts, CopyFields(g.post, s.m), t3)
    IN  IF s.err # ""
        THEN [err |-> s.err, m |-> s.m, rows |-> s.rows, posts |-> P,
              created |-> FALSE, written |-> FALSE, clock |-> t1]
        ELSE IF g.err # ""
        THEN [err |-> g.err, m |-> s.m, rows |-> s.rows, posts |-> g.posts,
              created |-> FALSE, written |-> TRUE, clock |-> t2]
        ELSE [err |-> u.err, m |-> s.m, rows |-> s.rows, posts |-> u.posts,
              created |-> g.created, written |-> TRUE, clock |-> t3]

(* ---------------------------------------------------------------------- *)
(* BaseOembedPostType                                                      *)
(* ---------------------------------------------------------------------- *)
\* cache_age values of the instances, in clock units.
CacheAges == {1, 2}

\* The columns an oEmbed response is mapped to (BaseOembedPhoto).
OembedFields ==
    {"version", "provider_name", "provider_url", "width", "height", "image_url"}

\* The abstract oEmbed variants: BaseOembedLink, BaseOembedPhoto and
\* BaseOembedVideo (BaseOembedRich has the columns and map of the latter).
Variants == {"Link", "Photo", "Video"}

\* The columns of a variant that hold provider data.
FieldsOf(v) ==
    IF v = "Photo" THEN OembedFields
    ELSE IF v = "Video"
    THEN {"version", "provider_name", "provider_url", "width", "height", "embed"}
    ELSE {"version", "provider_name", "provider_url"}

\* The other attributes every oEmbed instance has.
ModelAttrs ==
    {"id", "title", "author", "slug", "status", "caption", "cache_age",
     "date_updated", "date_added", "date_modified", "date_published"}

\* hasattr(self, field) on an instance of variant v.
HasAttrOf(v, field) == field \in FieldsOf(v) \cup ModelAttrs

\* hasattr(self, field): the attributes of a BaseOembedPhoto instance.
HasAttr(field) == HasAttrOf("Photo", field)

\* A mapping entry is a str, given with its characters, or a tuple.
Str(text, chars) == [tuple |-> FALSE, text |-> text, items |-> chars]

Tuple(prop, field) == [tuple |-> TRUE, text |-> "", items |-> <<prop, field>>]

\* BaseOembedPhoto.oembed_map
oembed_map ==
    << Str("version", <<"v", "e", "r", "s", "i", "o", "n">>),
       Str("provider_name",
           <<"p", "r", "o", "v", "i", "d", "e", "r", "_", "n", "a", "m", "e">>),
       Str("provider_url",
           <<"p", "r", "o", "v", "i", "d", "e", "r", "_", "u", "r", "l">>),
       Str("width", <<"w", "i", "d", "t", "h">>),
       Str("height", <<"h", "e", "i", "g", "h", "t">>),
       Tuple("url", "image_url") >>

\* The oembed_map a variant declares: BaseOembedPostType's three names,
\* inherited by BaseOembedLink, or those with width, height and the
\* variant's own pair.
MapOf(v) ==
    IF v = "Photo" THEN oembed_map
    ELSE IF v = "Video"
    THEN SubSeq(oembed_map, 1, 5) \o <<Tuple("html", "embed")>>
    ELSE SubSeq(oembed_map, 1, 3)

\* The keys of a complete photo response.
RemoteKeys == {"version", "provider_name", "provider_url", "width", "height", "url"}

\* What the provider does with one request: a JSON document carrying some of
\* the keys, an HTTP error status, or no connection at all.
ResponseKeySets == {RemoteKeys, {"version", "provider_name"}}

Tags == {"x", "y"}

ProviderOutcomes ==
    {[kind |-> "ok", keys |-> K, tag |-> g] : K \in ResponseKeySets, g \in Tags}
    \cup {[kind |-> k, keys |-> {}, tag |-> ""] : k \in {"HTTPError", "URLError"}}

\* response[prop] of a document: the value the provider gives for that key.
ValueOf(response, prop) == <<prop, response.tag>>

\* No in-memory instance held by the caller.
NoInstance ==
    [held |-> FALSE, cache_age |-> None, date_updated |-> None,
     vals |-> [f \in OembedFields |-> None]]

\* No row of P1 in the store.
NoRow ==
    [exists |-> FALSE, cache_age |-> None, date_updated |-> None,
     vals |-> [f \in OembedFields |-> None]]

\* oembed_retrieve that re-raises when told to suppress.
oembed_retrieve_FlagInverted(outcome, suppress_http_errors) ==
    IF outcome.kind = "ok"
    THEN [err |-> "", response |-> [none |-> FALSE, keys |-> outcome.keys, tag |-> outcome.tag]]
    ELSE IF outcome.kind = "HTTPError" /\ ~suppress_http_errors
    THEN [err |-> "", response |-> [none |-> TRUE, keys |-> {}, tag |-> ""]]
    ELSE [err |-> outcome.kind, response |-> [none |-> TRUE, keys |-> {}, tag |-> ""]]

\* oembed_retrieve: consumer.embed(...) with only HTTPError caught; a
\* suppressed HTTPError falls off the end of the function, which returns None.
oembed_retrieve(outcome, suppress_http_errors) ==
    IF outcome.kind = "ok"
    THEN [err |-> "", response |-> [none |-> FALSE, keys |-> outcome.keys, tag |-> outcome.tag]]
    ELSE IF outcome.kind = "HTTPError" /\ suppress_http_errors
    THEN [err |-> "", response |-> [none |-> TRUE, keys |-> {}, tag |-> ""]]
    ELSE [err |-> outcome.kind, response |-> [none |-> TRUE, keys |-> {}, tag |-> ""]]

\* prop, field = mapping with the two names taken in the other order.
Unpack_Swapped(mapping) ==
    IF Len(mapping.items) = 2
    THEN [prop |-> mapping.items[2], field |-> mapping.items[1]]
    ELSE [prop |-> mapping.text, field |-> mapping.text]

\* prop, field = mapping: two items unpack, of a tuple as of a str; any other
\* length raises ValueError and the entry stands for both names.
Unpack(mapping) ==
    IF Len(mapping.items) = 2
    THEN [prop |-> mapping.items[1], field |-> mapping.items[2]]
    ELSE [prop |-> mapping.text, field |-> mapping.text]

\* oembed_clean_value: the default transform.
oembed_clean_value(key, value) == value

\* oembed_map_values of an instance of variant v whose class declares map,
\* from entry k on: response[prop] raises TypeError on None and KeyError on a
\* missing key; the attributes set before stay set.
RECURSIVE MapValuesOver(_, _, _, _, _)
\* oembed_map_values that passes over an entry whose key the document lacks.
MapValuesOver_KeyOptional(map, v, k, vals, response) ==
    IF k > Len(map) THEN [err |-> "", vals |-> vals]
    ELSE LET e == Unpack(map[k])
         IN  IF ~HasAttrOf(v, e.field) THEN MapValuesOver(map, v, k + 1, vals, response)
             ELSE IF response.none THEN [err |-> "TypeError", vals |-> vals]
             ELSE IF e.prop \notin response.keys
             THEN MapValuesOver(map, v, k + 1, vals, response)
             ELSE MapValuesOver(map, v, k + 1,
                    (e.field :> oembed_clean_value(e.field, ValueOf(response, e.prop)))
                        @@ vals,
                    response)

MapValuesOver(map, v, k, vals, response) ==
    IF k > Len(map) THEN [err |-> "", vals |-> vals]
    ELSE LET e == Unpack(map[k])
         IN  IF ~HasAttrOf(v, e.field) THEN MapValuesOver(map, v, k + 1, vals, response)
             ELSE IF response.none THEN [err |-> "TypeError", vals |-> vals]
             ELSE IF e.prop \notin response.keys THEN [err |-> "KeyError", vals |-> vals]
             ELSE MapValuesOver(map, v, k + 1,
                    (e.field :> oembed_clean_value(e.field, ValueOf(response, e.prop)))
                        @@ vals,
                    response)

\* oembed_map_values of a BaseOembedPhoto instance, from entry k on.
MapValuesFrom(k, vals, response) == MapValuesOver(oembed_map, "Photo", k, vals, response)

oembed_map_values(vals, response) == MapValuesFrom(1, vals, response)

\* oembed_update that sets date_updated last, after the values were mapped.
oembed_update_StampLast(o, t, outcome) ==
    LET r  == oembed_retrieve(outcome, TRUE)
        v  == oembed_map_values(o.vals, r.response)
    IN  IF r.err # "" THEN [err |-> r.err, o |-> o]
        ELSE IF v.err # "" THEN [err |-> v.err, o |-> [o EXCEPT !.vals = v.vals]]
        ELSE [err |-> "", o |-> [o EXCEPT !.vals = v.vals, !.date_updated = t]]

\* oembed_update at clock reading t.
oembed_update(o, t, outcome) ==
    LET o1 == [o EXCEPT !.date_updated = t]
        r  == oembed_retrieve(outcome, TRUE)
        v  == oembed_map_values(o1.vals, r.response)
    IN  IF r.err # "" THEN [err |-> r.err, o |-> o1]
        ELSE [err |-> v.err, o |-> [o1 EXCEPT !.vals = v.vals]]

\* The expiry test with >= in place of >.
Expired_AtBoundary(o, t) == t >= o.cache_age + o.date_updated

\* datetime.now() > timedelta(seconds=self.cache_age) + self.date_updated
Expired(o, t) == t > o.cache_age + o.date_updated

\* __init__ that returns the instance whatever oembed_update raised.
oembed_init_KeepsGoing(o, pk, t, outcome) ==
    IF pk = None THEN [err |-> "", o |-> o, refreshes |-> 0]
    ELSE IF o.date_updated = None THEN [err |-> "TypeError", o |-> o, refreshes |-> 0]
    ELSE IF Expired(o, t)
    THEN [err |-> "", o |-> oembed_update(o, t, outcome).o, refreshes |-> 1]
    ELSE [err |-> "", o |-> o, refreshes |-> 0]

\* BaseOembedPostType.__init__ of an instance with the given pk at clock
\* reading t: timedelta + None raises TypeError.
oembed_init(o, pk, t, outcome) ==
    IF pk = None THEN [err |-> "", o |-> o, refreshes |-> 0]
    ELSE IF o.date_updated = None THEN [err |-> "TypeError", o |-> o, refreshes |-> 0]
    ELSE IF Expired(o, t)
    THEN LET u == oembed_update(o, t, outcome)
         IN  [err |-> u.err, o |-> u.o, refreshes |-> 1]
    ELSE [err |-> "", o |-> o, refreshes |-> 0]

\* reverse('tumblelog:detail', kwargs={'slug': slug}), by @models.permalink.
Permalink(slug) == [view |-> "tumblelog:detail", slug |-> slug]

\* No URL was returned.
NoUrl == [view |-> "", slug |-> EmptySlug]

\* get_absolute_url that builds the URL from the slug of the instance it was
\* called on.
get_absolute_url_OwnSlug(m, ty, R, P, stored, t, outcome) ==
    IF PostsOf(P, ty, m.id) = {}
    THEN [err |-> "IndexError", url |-> NoUrl, refreshes |-> 0, stamped |-> None]
    ELSE LET o == [held |-> TRUE, cache_age |-> stored.cache_age,
                   date_updated |-> stored.date_updated, vals |-> stored.vals]
             i == oembed_init(o, m.id, t, outcome)
         IN  IF i.err # ""
             THEN [err |-> i.err, url |-> NoUrl, refreshes |-> i.refreshes,
                   stamped |-> IF i.refreshes = 0 THEN None ELSE i.o.date_updated]
             ELSE [err |-> "", url |-> Permalink(m.slug), refreshes |-> i.refreshes,
                   stamped |-> IF i.refreshes = 0 THEN None ELSE i.o.date_updated]

\* BasePostType.get_absolute_url of an oEmbed instance m: the first Post of
\* the GenericRelation (IndexError when there is none), then
\* Post.get_absolute_url, whose self.fields reads the item's row into a new
\* instance, running __init__ on it, and takes that instance's slug; stamped
\* is the date_updated of that instance when it was refreshed.
get_absolute_url(m, ty, R, P, stored, t, outcome) ==
    IF PostsOf(P, ty, m.id) = {}
    THEN [err |-> "IndexError", url |-> NoUrl, refreshes |-> 0, stamped |-> None]
    ELSE IF RowsOf(R, ty, m.id) = {}
    THEN [err |-> "AttributeError", url |-> NoUrl, refreshes |-> 0, stamped |-> None]
    ELSE LET r == CHOOSE q \in RowsOf(R, ty, m.id) : TRUE
             o == [held |-> TRUE, cache_age |-> stored.cache_age,
                   date_updated |-> stored.date_updated, vals |-> stored.vals]
             i == oembed_init(o, r.id, t, outcome)
         IN  IF i.err # ""
             THEN [err |-> i.err, url |-> NoUrl, refreshes |-> i.refreshes,
                   stamped |-> IF i.refreshes = 0 THEN None ELSE i.o.date_updated]
             ELSE [err |-> "", url |-> Permalink(r.slug), refreshes |-> i.refreshes,
                   stamped |-> IF i.refreshes = 0 THEN None ELSE i.o.date_updated]

(* ---------------------------------------------------------------------- *)
(* Actions                                                                 *)
(* ---------------------------------------------------------------------- *)
\* The local variable post of save() before get_or_create has returned.
NoPost ==
    [id |-> None, post_type |-> "", object_id |-> None, slug |-> EmptySlug,
     status |-> DefaultStatus, author |-> None, date_added |-> None,
     date_modified |-> None, date_published |-> None]

\* No request is running.
Idle == [p \in {"r1", "r2"} |-> [at |-> "idle", item |-> "A1", post |-> NoPost]]

\* The provider was not asked.
NoOutcome == [kind |-> "none", keys |-> {}, tag |-> ""]

\* What the caller of op on item i observes: the result or the exception
\* raised; for clean_fields the outcome of the other fields' checks, for save
\* the created flag of get_or_create, for the oEmbed calls the number of
\* oembed_update calls made, what the provider did (provider, and in full
\* outcome), the suppress_http_errors argument and the date_updated of the
\* instance oembed_update ran on (stamped); args holds the other arguments
\* and results of the call.
Call(op, i, result) ==
    [op |-> op, item |-> i, result |-> result, fieldsOk |-> TRUE,
     created |-> FALSE, refreshes |-> 0, provider |-> "none",
     outcome |-> NoOutcome, suppress |-> TRUE, stamped |-> None, args |-> <<>>]


Init ==
    /\ mem = [i \in AllItems |-> NewItem]
    /\ rows = {}
    /\ posts = {}
    /\ now = 1
    /\ last = Call("init", "A1", "ok")
    /\ savedOk = [i \in AllItems |-> FALSE]
    /\ pc = Idle
    /\ oembed = NoInstance
    /\ ostore = NoRow

\* The caller assigns the slug of an instance.
SetSlug(i, s) ==
    /\ mem[i].slug # s
    /\ mem' = [mem EXCEPT ![i].slug = s]
    /\ last' = Call("edit", i, "ok")
    /\ UNCHANGED <<rows, posts, now, savedOk, pc, oembed, ostore>>

\* The caller assigns status, author and date_published of an instance.
SetMeta(i, st, au, dp) ==
    /\ <<mem[i].status, mem[i].author, mem[i].date_published>> # <<st, au, dp>>
    /\ mem' = [mem EXCEPT ![i].status = st, ![i].author = au,
                          ![i].date_published = dp]
    /\ last' = Call("edit", i, "ok")
    /\ UNCHANGED <<rows, posts, now, savedOk, pc, oembed, ostore>>

\* item.clean_fields(exclude)
Validate(i, fieldsOk) ==
    /\ last' = [Call("validate", i, clean_fields(mem[i], PostTypeOf(i), posts, fieldsOk))
                   EXCEPT !.fieldsOk = fieldsOk]
    /\ UNCHANGED <<mem, rows, posts, now, savedOk, pc, oembed, ostore>>

\* item.save(), the clock reading t2 at get_or_create and t3 at post.save().
Save(i, t2, t3) ==
    LET r == save(mem[i], PostTypeOf(i), rows, posts, now, t2, t3)
    IN  /\ mem' = [mem EXCEPT ![i] = r.m]
        /\ rows' = r.rows
        /\ posts' = r.posts
        /\ now' = r.clock
        /\ last' = [Call("save", i, IF r.err = "" THEN "ok" ELSE r.err)
                       EXCEPT !.created = r.created]
        /\ savedOk' = [savedOk EXCEPT ![i] = @ \/ r.err = ""]
        /\ UNCHANGED <<pc, oembed, ostore>>

\* Any sequence of slug assignments, validate() and save() calls on three
\* content items, two of one concrete type and one of another.  The clock
\* stands still: no claim checked here reads a timestamp.
Next ==
    \/ \E i \in Items, s \in Slugs : SetSlug(i, s)
    \/ \E i \in Items, fieldsOk \in BOOLEAN : Validate(i, fieldsOk)
    \/ \E i \in Items : Save(i, now, now)

Spec == Init /\ [][Next]_vars

\* Saves of one item between which the caller changes any of the fields the
\* Post denormalizes, next to an item of another type, constructed with the
\* slug "hello", that competes for that slug; the clock may tick between the
\* writes of one save().
FieldItems == {"A1", "L1"}

FieldSlugs == {"hello", "world"}

InitFields ==
    /\ mem = [i \in AllItems |-> IF i = "L1" THEN [NewItem EXCEPT !.slug = "hello"] ELSE NewItem]
    /\ rows = {}
    /\ posts = {}
    /\ now = 1
    /\ last = Call("init", "A1", "ok")
    /\ savedOk = [i \in AllItems |-> FALSE]
    /\ pc = Idle
    /\ oembed = NoInstance
    /\ ostore = NoRow

NextFields ==
    \/ \E s \in FieldSlugs : SetSlug("A1", s)
    \/ \E st \in Statuses, au \in Authors, dp \in PubDates : SetMeta("A1", st, au, dp)
    \/ \E i \in FieldItems : \E t2 \in Later(now) : \E t3 \in Later(t2) : Save(i, t2, t3)

SpecFields == InitFields /\ [][NextFields]_vars

(* ---------------------------------------------------------------------- *)
(* Deleting content items                                                  *)
(* ---------------------------------------------------------------------- *)
\* item.delete() that removes the row of the item only.
Delete_NoCascade(i) ==
    /\ mem[i].id # None
    /\ rows' = rows \ RowsOf(rows, PostTypeOf(i), mem[i].id)
    /\ posts' = posts
    /\ mem' = [mem EXCEPT ![i].id = None]
    /\ savedOk' = [savedOk EXCEPT ![i] = FALSE]
    /\ last' = [Call("delete", i, "ok")
                   EXCEPT !.args = [post_type |-> PostTypeOf(i), object_id |-> mem[i].id,
                                    deleted |-> {}]]
    /\ UNCHANGED <<now, pc, oembed, ostore>>

\* item.delete() of a saved instance: the row goes, and with it, through the
\* GenericRelation post, every Post whose (post_type, object_id) is the
\* item's; the instance is left without a primary key.
Delete(i) ==
    /\ mem[i].id # None
    /\ rows' = rows \ RowsOf(rows, PostTypeOf(i), mem[i].id)
    /\ posts' = posts \ PostsOf(posts, PostTypeOf(i), mem[i].id)
    /\ mem' = [mem EXCEPT ![i].id = None]
    /\ savedOk' = [savedOk EXCEPT ![i] = FALSE]
    /\ last' = [Call("delete", i, "ok")
                   EXCEPT !.args = [post_type |-> PostTypeOf(i), object_id |-> mem[i].id,
                                    deleted |-> PostsOf(posts, PostTypeOf(i), mem[i].id)]]
    /\ UNCHANGED <<now, pc, oembed, ostore>>

\* Any sequence of slug assignments, save() and delete() calls on the three
\* content items, as long as the primary keys handed out stay within MaxId;
\* the clock stands still.
NextDelete ==
    \/ \E i \in Items, s \in FieldSlugs : SetSlug(i, s)
    \/ \E i \in Items :
         /\ NextRowId(rows, PostTypeOf(i)) <= MaxId
         /\ NextPostId(posts) <= MaxId
         /\ Save(i, now, now)
    \/ \E i \in Items : Delete(i)

SpecDelete == Init /\ [][NextDelete]_vars

(* ---------------------------------------------------------------------- *)
(* Default listings: Meta.ordering = ['-date_published']                   *)
(* ---------------------------------------------------------------------- *)
\* The date_published values given to the listed items.
ListDates == {None, 1, 2}

\* ORDER BY date_published in ascending order.
Precedes_Ascending(a, b, nullsFirst) ==
    IF a.date_published = None THEN b.date_published = None \/ nullsFirst
    ELSE IF b.date_published = None THEN ~nullsFirst
    ELSE a.date_published <= b.date_published

\* ORDER BY date_published DESC lets record a stand before record b; where
\* NULLs sort is the database's choice, as is the order among equals.
Precedes(a, b, nullsFirst) ==
    IF a.date_published = None THEN b.date_published = None \/ nullsFirst
    ELSE IF b.date_published = None THEN ~nullsFirst
    ELSE a.date_published >= b.date_published

\* Every sequence the query may return for the records S.
RECURSIVE Orderings(_, _)
Orderings(S, nullsFirst) ==
    IF S = {} THEN {<<>>}
    ELSE UNION {{<<a>> \o rest : rest \in Orderings(S \ {a}, nullsFirst)} :
                a \in {x \in S : \A b \in S : Precedes(x, b, nullsFirst)}}

\* Three items with slugs of their own.
InitList ==
    /\ mem = [i \in AllItems |->
                [NewItem EXCEPT !.slug = IF i = "A1" THEN "hello"
                                         ELSE IF i = "A2" THEN "world" ELSE "again"]]
    /\ rows = {}
    /\ posts = {}
    /\ now = 1
    /\ last = Call("init", "A1", "ok")
    /\ savedOk = [i \in AllItems |-> FALSE]
    /\ pc = Idle
    /\ oembed = NoInstance
    /\ ostore = NoRow

\* Post.objects.all() and, for the concrete type ty, its objects.all().
List(ty, nullsFirst) ==
    /\ \E ps \in Orderings(posts, nullsFirst) :
       \E rs \in Orderings({r \in rows : r.post_type = ty}, nullsFirst) :
         last' = [Call("list", "A1", "ok")
                    EXCEPT !.args = [post_type |-> ty, posts |-> ps, rows |-> rs]]
    /\ UNCHANGED <<mem, rows, posts, now, savedOk, pc, oembed, ostore>>

NextList ==
    \/ \E i \in Items, dp \in ListDates : SetMeta(i, DefaultStatus, None, dp)
    \/ \E i \in Items : Save(i, now, now)
    \/ \E ty \in {"Article", "Link"}, nullsFirst \in BOOLEAN : List(ty, nullsFirst)

SpecList == InitList /\ [][NextList]_vars

(* ---------------------------------------------------------------------- *)
(* Two concurrent requests                                                 *)
(* ---------------------------------------------------------------------- *)
\* Each request validates one content item and saves it; the statements of
\* clean_fields and save that touch the store are the steps, and the steps of
\* the two requests interleave freely.  The instances are constructed with
\* their slugs before the requests start.
Requests == {"r1", "r2"}

ConcSlugs == {"hello", "world"}

InitConc ==
    /\ \E f \in [Items -> ConcSlugs] :
          mem = [i \in AllItems |->
                    IF i \in Items THEN [NewItem EXCEPT !.slug = f[i]] ELSE NewItem]
    /\ rows = {}
    /\ posts = {}
    /\ now = 1
    /\ last = Call("init", "A1", "ok")
    /\ savedOk = [i \in AllItems |-> FALSE]
    /\ pc = Idle
    /\ oembed = NoInstance
    /\ ostore = NoRow

Goto(p, at) == pc' = [pc EXCEPT ![p].at = at]

\* A request starts on an item no other request works on.
Begin(p, i) ==
    /\ pc[p].at = "idle"
    /\ \A q \in Requests \ {p} : pc[q].at = "idle" \/ pc[q].item # i
    /\ pc' = [pc EXCEPT ![p] = [at |-> "clean", item |-> i, post |-> NoPost]]
    /\ UNCHANGED <<mem, rows, posts, now, last, savedOk, oembed, ostore>>

\* clean_fields: the two lookups of the slug check.
CleanStep(p) ==
    /\ pc[p].at = "clean"
    /\ LET i == pc[p].item
           r == clean_fields(mem[i], PostTypeOf(i), posts, TRUE)
       IN  Goto(p, IF r = "ok" THEN "save" ELSE "rejected")
    /\ UNCHANGED <<mem, rows, posts, now, last, savedOk, oembed, ostore>>

\* save, line 216: the item's own row.
SaveItemStep(p) ==
    /\ pc[p].at = "save"
    /\ LET i == pc[p].item
           s == SaveItem(mem[i], PostTypeOf(i), rows, now)
       IN  /\ mem' = [mem EXCEPT ![i] = s.m]
           /\ rows' = s.rows
           /\ Goto(p, IF s.err = "" THEN "get_or_create" ELSE "raised")
    /\ UNCHANGED <<posts, now, last, savedOk, oembed, ostore>>

\* save, lines 218-221.
GetOrCreateStep(p) ==
    /\ pc[p].at = "get_or_create"
    /\ LET i == pc[p].item
           g == get_or_create(posts, PostTypeOf(i), mem[i].id, now)
       IN  /\ posts' = g.posts
           /\ pc' = [pc EXCEPT ![p].at = IF g.err = "" THEN "post_save" ELSE "raised",
                                ![p].post = g.post]
    /\ UNCHANGED <<mem, rows, now, last, savedOk, oembed, ostore>>

\* save, lines 222-228.
SavePostStep(p) ==
    /\ pc[p].at = "post_save"
    /\ LET i == pc[p].item
           u == SavePost(posts, CopyFields(pc[p].post, mem[i]), now)
       IN  /\ posts' = u.posts
           /\ Goto(p, IF u.err = "" THEN "done" ELSE "raised")
           /\ savedOk' = [savedOk EXCEPT ![i] = @ \/ u.err = ""]
    /\ UNCHANGED <<mem, rows, now, last, oembed, ostore>>

NextConc ==
    \/ \E p \in Requests, i \in Items : Begin(p, i)
    \/ \E p \in Requests : CleanStep(p)
    \/ \E p \in Requests : SaveItemStep(p)
    \/ \E p \in Requests : GetOrCreateStep(p)
    \/ \E p \in Requests : SavePostStep(p)

SpecConc == InitConc /\ [][NextConc]_vars

(* ---------------------------------------------------------------------- *)
(* One oEmbed-backed item                                                  *)
(* ---------------------------------------------------------------------- *)
OkOr(err) == IF err = "" THEN "ok" ELSE err

\* The store is empty, or holds the row of P1 and its Post, written with fresh
\* provider data at time 1 or (null=True) without a date_updated.
InitOembed ==
    /\ now = 1
    /\ last = Call("init", OembedItem, "ok")
    /\ savedOk = [i \in AllItems |-> FALSE]
    /\ pc = Idle
    /\ oembed = NoInstance
    /\ mem = [i \in AllItems |-> NewItem]
    /\ \/ rows = {} /\ posts = {} /\ ostore = NoRow
       \/ \E c \in CacheAges, du \in {None, 1} :
            LET m == [NewItem EXCEPT !.id = 1, !.slug = "hello",
                                      !.date_added = 1, !.date_modified = 1]
                g == get_or_create({}, PostTypeOf(OembedItem), 1, 1)
            IN  /\ rows = {RowFor(m, PostTypeOf(OembedItem))}
                /\ posts = SavePost(g.posts, CopyFields(g.post, m), 1).posts
                /\ ostore = [exists |-> TRUE, cache_age |-> c, date_updated |-> du,
                             vals |-> [f \in OembedFields |-> <<f, "w">>]]

\* Time passes.
Tick ==
    /\ now < MaxTime
    /\ now' = now + 1
    /\ last' = Call("tick", OembedItem, "ok")
    /\ UNCHANGED <<mem, rows, posts, savedOk, pc, oembed, ostore>>

\* Photo(slug="hello", cache_age=c): a new instance, never saved.
Construct(c) ==
    /\ ~ostore.exists /\ ~oembed.held
    /\ LET i == oembed_init([NoInstance EXCEPT !.held = TRUE, !.cache_age = c],
                            None, now, [kind |-> "URLError", keys |-> {}, tag |-> ""])
       IN  /\ oembed' = i.o
           /\ last' = [Call("construct", OembedItem, OkOr(i.err))
                          EXCEPT !.refreshes = i.refreshes]
    /\ mem' = [mem EXCEPT ![OembedItem] = [NewItem EXCEPT !.slug = "hello"]]
    /\ UNCHANGED <<rows, posts, now, savedOk, pc, ostore>>

\* A load that writes the refreshed instance back to its row.
Load_WritesBack(outcome) ==
    /\ ostore.exists
    /\ LET r == CHOOSE q \in rows : q.post_type = PostTypeOf(OembedItem)
           o == [held |-> TRUE, cache_age |-> ostore.cache_age,
                 date_updated |-> ostore.date_updated, vals |-> ostore.vals]
           i == oembed_init(o, r.id, now, outcome)
       IN  /\ oembed' = IF i.err = "" THEN i.o ELSE oembed
           /\ mem' = IF i.err = ""
                     THEN [mem EXCEPT ![OembedItem] =
                            [id |-> r.id, slug |-> r.slug, status |-> r.status,
                             author |-> r.author, date_added |-> r.date_added,
                             date_modified |-> r.date_modified,
                             date_published |-> r.date_published]]
                     ELSE mem
           /\ last' = [Call("load", OembedItem, OkOr(i.err))
                          EXCEPT !.refreshes = i.refreshes,
                                 !.provider = IF i.refreshes = 0 THEN "none" ELSE outcome.kind,
                                 !.outcome = IF i.refreshes = 0 THEN NoOutcome ELSE outcome,
                                 !.stamped = IF i.refreshes = 0 THEN None ELSE i.o.date_updated]
           /\ ostore' = IF i.refreshes = 1
                        THEN [ostore EXCEPT !.date_updated = i.o.date_updated,
                                            !.vals = i.o.vals]
                        ELSE ostore
    /\ UNCHANGED <<rows, posts, now, savedOk, pc>>

\* Photo.objects.get(...): the row is read into a new instance, whose
\* __init__ runs before the caller gets it; if it raises the caller gets no
\* instance and keeps what it held.
Load(outcome) ==
    /\ ostore.exists
    /\ LET r == CHOOSE q \in rows : q.post_type = PostTypeOf(OembedItem)
           o == [held |-> TRUE, cache_age |-> ostore.cache_age,
                 date_updated |-> ostore.date_updated, vals |-> ostore.vals]
           i == oembed_init(o, r.id, now, outcome)
       IN  /\ oembed' = IF i.err = "" THEN i.o ELSE oembed
           /\ mem' = IF i.err = ""
                     THEN [mem EXCEPT ![OembedItem] =
                            [id |-> r.id, slug |-> r.slug, status |-> r.status,
                             author |-> r.author, date_added |-> r.date_added,
                             date_modified |-> r.date_modified,
                             date_published |-> r.date_published]]
                     ELSE mem
           /\ last' = [Call("load", OembedItem, OkOr(i.err))
                          EXCEPT !.refreshes = i.refreshes,
                                 !.provider = IF i.refreshes = 0 THEN "none" ELSE outcome.kind,
                                 !.outcome = IF i.refreshes = 0 THEN NoOutcome ELSE outcome,
                                 !.stamped = IF i.refreshes = 0 THEN None ELSE i.o.date_updated]
    /\ UNCHANGED <<rows, posts, now, savedOk, pc, ostore>>

\* instance.oembed_update()
Refresh(outcome) ==
    /\ oembed.held
    /\ LET u == oembed_update(oembed, now, outcome)
       IN  /\ oembed' = u.o
           /\ last' = [Call("oembed_update", OembedItem, OkOr(u.err))
                          EXCEPT !.refreshes = 1, !.provider = outcome.kind,
                                 !.outcome = outcome, !.stamped = u.o.date_updated]
    /\ UNCHANGED <<mem, rows, posts, now, savedOk, pc, ostore>>

\* instance.oembed_retrieve(suppress_http_errors=suppress): the caller gets
\* the document, None, or the exception; the instance is not touched.
Retrieve(outcome, suppress) ==
    /\ oembed.held
    /\ LET r == oembed_retrieve(outcome, suppress)
       IN  last' = [Call("oembed_retrieve", OembedItem, OkOr(r.err))
                      EXCEPT !.provider = outcome.kind, !.outcome = outcome,
                             !.suppress = suppress,
                             !.args = [none |-> r.response.none]]
    /\ UNCHANGED <<mem, rows, posts, now, savedOk, pc, oembed, ostore>>

\* instance.get_absolute_url()
GetAbsoluteUrl(outcome) ==
    /\ oembed.held
    /\ LET g == get_absolute_url(mem[OembedItem], PostTypeOf(OembedItem), rows, posts,
                                 ostore, now, outcome)
       IN  last' = [Call("get_absolute_url", OembedItem, OkOr(g.err))
                      EXCEPT !.refreshes = g.refreshes,
                             !.provider = IF g.refreshes = 0 THEN "none" ELSE outcome.kind,
                             !.outcome = IF g.refreshes = 0 THEN NoOutcome ELSE outcome,
                             !.stamped = g.stamped,
                             !.args = [url |-> g.url]]
    /\ UNCHANGED <<mem, rows, posts, now, savedOk, pc, oembed, ostore>>

\* save() that runs BasePostType.save() first and oembed_update() after it.
SaveOembed_PersistFirst(outcome) ==
    /\ oembed.held
    /\ LET u == oembed_update(oembed, now, outcome)
           r == save(mem[OembedItem], PostTypeOf(OembedItem), rows, posts, now, now, now)
       IN  /\ oembed' = IF r.err # "" THEN oembed ELSE u.o
           /\ last' = [Call("save", OembedItem,
                             IF r.err # "" THEN r.err ELSE OkOr(u.err))
                          EXCEPT !.refreshes = IF r.err # "" THEN 0 ELSE 1,
                                 !.provider = outcome.kind,
                                 !.outcome = outcome, !.stamped = u.o.date_updated,
                                 !.created = r.created]
           /\ mem' = [mem EXCEPT ![OembedItem] = r.m]
           /\ rows' = r.rows
           /\ posts' = r.posts
           /\ savedOk' = [savedOk EXCEPT ![OembedItem] = @ \/ (r.err = "" /\ u.err = "")]
           /\ ostore' = IF r.written
                        THEN [exists |-> TRUE, cache_age |-> oembed.cache_age,
                              date_updated |-> oembed.date_updated,
                              vals |-> oembed.vals]
                        ELSE ostore
    /\ UNCHANGED <<now, pc>>

\* BaseOembedPostType.save(): oembed_update(), then BasePostType.save().
SaveOembed(outcome) ==
    /\ oembed.held
    /\ LET u == oembed_update(oembed, now, outcome)
           r == save(mem[OembedItem], PostTypeOf(OembedItem), rows, posts, now, now, now)
       IN  /\ oembed' = u.o
           /\ last' = [Call("save", OembedItem,
                             IF u.err # "" THEN u.err ELSE OkOr(r.err))
                          EXCEPT !.refreshes = 1, !.provider = outcome.kind,
                                 !.outcome = outcome, !.stamped = u.o.date_updated,
                                 !.created = IF u.err # "" THEN FALSE ELSE r.created]
           /\ IF u.err # ""
              THEN UNCHANGED <<mem, rows, posts, savedOk, ostore>>
              ELSE /\ mem' = [mem EXCEPT ![OembedItem] = r.m]
                   /\ rows' = r.rows
                   /\ posts' = r.posts
                   /\ savedOk' = [savedOk EXCEPT ![OembedItem] = @ \/ r.err = ""]
                   /\ ostore' = IF r.written
                                THEN [exists |-> TRUE, cache_age |-> u.o.cache_age,
                                      date_updated |-> u.o.date_updated,
                                      vals |-> u.o.vals]
                                ELSE ostore
    /\ UNCHANGED <<now, pc>>

NextOembed ==
    \/ Tick
    \/ \E c \in CacheAges : Construct(c)
    \/ \E outcome \in ProviderOutcomes : Load(outcome)
    \/ \E outcome \in ProviderOutcomes : Refresh(outcome)
    \/ \E outcome \in ProviderOutcomes : SaveOembed(outcome)
    \/ \E outcome \in ProviderOutcomes, suppress \in BOOLEAN : Retrieve(outcome, suppress)
    \/ \E s \in FieldSlugs : oembed.held /\ SetSlug(OembedItem, s)
    \/ \E outcome \in ProviderOutcomes : GetAbsoluteUrl(outcome)

SpecOembed == InitOembed /\ [][NextOembed]_vars

(* ---------------------------------------------------------------------- *)
(* oembed_map_values on its own: an instance of any variant, whose class   *)
(* declares any of the maps, given any response                            *)
(* ---------------------------------------------------------------------- *)
\* The documents a provider may answer with.
MapKeySets ==
    {RemoteKeys, {"version", "provider_name", "provider_url"},
     {"version", "provider_name", "provider_url", "width", "height", "html"},
     {"version", "provider_name"}}

\* The responses oembed_retrieve hands to oembed_map_values: a document, or
\* None after a suppressed HTTPError.
MapOutcomes ==
    {[kind |-> "ok", keys |-> K, tag |-> g] : K \in MapKeySets, g \in Tags}
    \cup {[kind |-> "HTTPError", keys |-> {}, tag |-> ""]}

\* An unsaved instance of one of the variants, its columns holding earlier
\* values.
InitMap ==
    /\ now = 1
    /\ savedOk = [i \in AllItems |-> FALSE]
    /\ pc = Idle
    /\ mem = [i \in AllItems |-> NewItem]
    /\ rows = {} /\ posts = {} /\ ostore = NoRow
    /\ \E v \in Variants :
         /\ oembed = [held |-> TRUE, cache_age |-> 1, date_updated |-> None,
                      vals |-> [f \in FieldsOf(v) |-> <<f, "w">>]]
         /\ last = [Call("construct", OembedItem, "ok")
                       EXCEPT !.args = [variant |-> v, map |-> <<>>, before |-> <<>>]]

\* self.oembed_map_values(response) on the instance, its class declaring map.
MapValues(map, outcome) ==
    LET v == last.args.variant
        r == MapValuesOver(map, v, 1, oembed.vals,
                           oembed_retrieve(outcome, TRUE).response)
    IN  /\ oembed' = [oembed EXCEPT !.vals = r.vals]
        /\ last' = [Call("oembed_map_values", OembedItem, OkOr(r.err))
                       EXCEPT !.provider = outcome.kind, !.outcome = outcome,
                              !.args = [variant |-> v, map |-> map,
                                        before |-> oembed.vals]]
        /\ UNCHANGED <<mem, rows, posts, now, savedOk, pc, ostore>>

NextMap == \E v \in Variants, outcome \in MapOutcomes : MapValues(MapOf(v), outcome)

SpecMap == InitMap /\ [][NextMap]_vars

\* A subclass may declare any oembed_map: here the three inherited names and
\* the two-character name of an attribute every instance has.
ShortNameMap == MapOf("Link") \o <<Str("id", <<"i", "d">>)>>

\* Documents that carry the key of that name as well.
ShortNameOutcomes ==
    MapOutcomes \cup
    {[kind |-> "ok", keys |-> K \cup {"id"}, tag |-> g] : K \in MapKeySets, g \in Tags}

NextShortName ==
    \E map \in {MapOf(v) : v \in Variants} \cup {ShortNameMap},
       outcome \in ShortNameOutcomes : MapValues(map, outcome)

SpecShortName == InitMap /\ [][NextShortName]_vars

(* ---------------------------------------------------------------------- *)
(* Properties                                                              *)
(* ---------------------------------------------------------------------- *)
\* The Posts of item i, by its current primary key.
OwnPosts(i) == PostsOf(posts, PostTypeOf(i), mem[i].id)

\* The rows of item i.
OwnRows(i) == RowsOf(rows, PostTypeOf(i), mem[i].id)

\* Some Post carries the slug of item i and is not a Post of item i.
ForeignPostHasSlug(i) ==
    \E p \in posts : p.slug = mem[i].slug /\ p \notin OwnPosts(i)

\* Item j stands saved with slug s: its row and its Post both carry s.
SavedWith(j, s) ==
    /\ \E r \in OwnRows(j) : r.slug = s
    /\ \E p \in OwnPosts(j) : p.slug = s

\* The last call was a save() of an item whose non-empty slug another item
\* stands saved with.
SavedSecond ==
    /\ last.op = "save"
    /\ mem[last.item].slug # EmptySlug
    /\ \E j \in Items \ {last.item} : SavedWith(j, mem[last.item].slug)

\* C1 (as stated): validate() fails with the duplicate-slug error if and only
\* if some Post carries the item's slug and is not the item's own Post.
C1_AsStated ==
    last.op = "validate" =>
        (last.result = "SlugExists" <=> ForeignPostHasSlug(last.item))

\* C1 (amended): validate() fails with the duplicate-slug error if and only if
\* the field checks pass (the slug is not empty, the other fields are valid)
\* and some Post carries the item's slug and is not the item's own Post; when
\* a field check fails it fails with that field's error instead.
C1_SlugCheck ==
    last.op = "validate" =>
        LET fieldChecksPass == last.fieldsOk /\ mem[last.item].slug # EmptySlug
        IN  /\ last.result = "SlugExists" <=>
                   (fieldChecksPass /\ ForeignPostHasSlug(last.item))
            /\ last.result = "FieldError" <=> ~fieldChecksPass

\* C1 witness: a first save is validated (the item has no Post yet) and is
\* rejected because another item's Post carries its slug.
C1_Witness ==
    /\ last.op = "validate" /\ last.result = "SlugExists"
    /\ OwnPosts(last.item) = {}
    /\ ForeignPostHasSlug(last.item)

C3_RejectedBeforePersistence ==
    [][(/\ last'.op = "save" /\ last'.result # "ok"
        /\ mem[last'.item].slug # EmptySlug
        /\ \E j \in Items \ {last'.item} : SavedWith(j, mem[last'.item].slug))
       => (posts' = posts /\ rows' = rows)]_vars

\* C4: an item whose save() has returned has exactly one Post with its
\* (post_type, object_id), and no item ever has two.
C4_OnePostPerItem ==
    \A i \in Items :
        /\ savedOk[i] => Cardinality(OwnPosts(i)) = 1
        /\ Cardinality(OwnPosts(i)) <= 1

\* C4 witness: a repeated save() found the Post of the item and reused it.
C4_Witness ==
    /\ last.op = "save" /\ last.result = "ok" /\ ~last.created
    /\ Cardinality(OwnPosts(last.item)) = 1

\* C5 (as stated): after a successful save() the item's Post references the
\* item and its status, date_added, date_modified, date_published, slug and
\* author equal the item's current values.
C5_PostMirrorsItem ==
    (last.op = "save" /\ last.result = "ok") =>
        \E p \in OwnPosts(last.item) :
            LET m == mem[last.item]
            IN  /\ p.status = m.status
                /\ p.date_added = m.date_added
                /\ p.date_modified = m.date_modified
                /\ p.date_published = m.date_published
                /\ p.slug = m.slug
                /\ p.author = m.author

\* C6 (as stated): no two persisted content items share a slug and no two
\* Posts share a slug.
C6_SlugsUnique ==
    /\ \A r1 \in rows : \A r2 \in rows :
          (r1.slug = r2.slug /\ r1.slug # EmptySlug) => r1 = r2
    /\ \A p1 \in posts : \A p2 \in posts : p1.slug = p2.slug => p1 = p2

\* C7 (as stated): a save() that raises leaves nothing written: the item's
\* row and the Post table are as before the call.
C7_SaveAtomic ==
    [][(last'.op = "save" /\ last'.result # "ok" /\ mem[last'.item].slug # EmptySlug)
       => (rows' = rows /\ posts' = posts)]_vars

\* C8 (as stated): when two requests have validated and saved two different
\* items with the same slug, at most one of the two items is persisted.
C8_OneWinner ==
    \A p \in Requests : \A q \in Requests \ {p} :
        (/\ pc[p].at \in {"done", "rejected", "raised"}
         /\ pc[q].at \in {"done", "rejected", "raised"}
         /\ mem[pc[p].item].slug = mem[pc[q].item].slug)
        => ~(OwnRows(pc[p].item) # {} /\ OwnRows(pc[q].item) # {})

\* C9: loading an oEmbed-backed item runs oembed_update, once and before the
\* instance is returned, if and only if the row has a date_updated and
\* now > date_updated + cache_age; at now = date_updated + cache_age it does
\* not; constructing a new, never saved instance never does.
C9_RefreshIffExpired ==
    /\ last.op = "load" =>
          /\ last.refreshes = 1 <=>
                 (/\ ostore.exists
                  /\ ostore.date_updated # None
                  /\ now > ostore.date_updated + ostore.cache_age)
          /\ last.refreshes \in {0, 1}
          /\ (last.refreshes = 1 /\ last.result = "ok") => oembed.date_updated = now
    /\ last.op = "construct" => last.refreshes = 0

\* C9 witness: a load one clock unit past date_updated + cache_age refreshed.
C9_Witness ==
    /\ last.op = "load" /\ last.refreshes = 1
    /\ now = ostore.date_updated + ostore.cache_age + 1

\* C10 (as stated): when the provider answers a refresh with an HTTP error,
\* the load or oembed_update call returns normally, the mapped fields keep
\* their cached values and date_updated is the current time.
C10_StaleButAvailable ==
    [][(last'.op \in {"load", "oembed_update"} /\ last'.provider = "HTTPError")
       => (/\ last'.result = "ok"
           /\ oembed'.date_updated = now'
           /\ oembed'.vals = IF last'.op = "load" THEN ostore.vals ELSE oembed.vals)]_vars

\* C11: every oembed_update call, made by a load, by save() or directly, leaves
\* the date_updated of the instance it ran on at the current time, whatever
\* the provider did and whether or not the mapping raised.
C11_AlwaysStamped ==
    last.refreshes = 1 =>
        /\ last.stamped = now
        /\ last.op \in {"oembed_update", "save"} => oembed.date_updated = now

\* C11 witness: an oembed_update whose mapping raised KeyError, or one that
\* got no connection, stamped a time later than the row's date_updated.
C11_Witness ==
    /\ last.refreshes = 1 /\ last.result \in {"KeyError", "URLError"}
    /\ last.stamped = now
    /\ ostore.exists /\ ostore.date_updated # None /\ ostore.date_updated < now

\* C12: once a load of an expired row has made a refresh attempt, the next
\* load of the same row at the same clock reading, with no save in between,
\* makes no remote request.
C12_OneRequestPerWindow ==
    [][(/\ last.op = "load" /\ last.refreshes = 1
        /\ last'.op = "load" /\ now' = now /\ ostore' = ostore)
       => last'.refreshes = 0]_vars

\* A mapping entry as its declaration reads: a pair (remote key, local
\* attribute), or one name standing for both.
EntryProp(e) == IF e.tuple THEN e.items[1] ELSE e.text

EntryField(e) == IF e.tuple THEN e.items[2] ELSE e.text

\* The document carries the remote key of every entry of map whose local
\* attribute an instance of variant v has.
Answers(outcome, map, v) ==
    /\ outcome.kind = "ok"
    /\ \A k \in 1..Len(map) :
         HasAttrOf(v, EntryField(map[k])) => EntryProp(map[k]) \in outcome.keys

\* C13: given a document carrying the keys it needs, oembed_map_values
\* returns normally; every entry whose local attribute the instance has
\* leaves that attribute at the document's value for the remote key, every
\* entry naming an attribute the instance lacks creates nothing (and needs no
\* key in the document), and every other attribute keeps its value.
C13_MapsDeclaredEntries ==
    (/\ last.op = "oembed_map_values"
     /\ Answers(last.outcome, last.args.map, last.args.variant))
    => LET map == last.args.map
           v == last.args.variant
           named == {EntryField(map[k]) : k \in 1..Len(map)}
       IN  /\ last.result = "ok"
           /\ DOMAIN oembed.vals = DOMAIN last.args.before
           /\ \A k \in 1..Len(map) :
                IF HasAttrOf(v, EntryField(map[k]))
                THEN oembed.vals[EntryField(map[k])]
                       = <<EntryProp(map[k]), last.outcome.tag>>
                ELSE EntryField(map[k]) \notin DOMAIN oembed.vals
           /\ \A f \in DOMAIN last.args.before \ named :
                oembed.vals[f] = last.args.before[f]

\* C13 witness: the photo map applied to a link instance, which has no width,
\* height or image_url, given a document without those keys: the three
\* common columns took the document's values.
C13_Witness ==
    /\ last.op = "oembed_map_values" /\ last.result = "ok"
    /\ last.args.variant = "Link" /\ last.args.map = MapOf("Photo")
    /\ last.outcome.keys = {"version", "provider_name", "provider_url"}
    /\ oembed.vals["version"] = <<"version", "y">>
    /\ last.args.before["version"] = <<"version", "x">>

\* C14: when the provider answers a refresh, made by a load, by save() or
\* directly, with a document that lacks the remote key of a declared entry
\* whose local attribute the instance has, the caller gets KeyError.
C14_MissingKeyRaises ==
    (/\ last.op \in {"load", "save", "oembed_update"} /\ last.refreshes = 1
     /\ last.outcome.kind = "ok"
     /\ \E k \in 1..Len(oembed_map) :
          /\ HasAttr(EntryField(oembed_map[k]))
          /\ EntryProp(oembed_map[k]) \notin last.outcome.keys)
    => last.result = "KeyError"

\* C14 witness: a load of an expired row, or a save(), that raised KeyError.
C14_Witness ==
    /\ last.op \in {"load", "save"} /\ last.item = OembedItem
    /\ last.outcome.kind = "ok" /\ "provider_url" \notin last.outcome.keys
    /\ last.result = "KeyError"

\* C15 as stated: a load of an expired row that the provider answers with a
\* document of version and provider_name only returns normally, the instance
\* carrying the two values and the time of the load.
C15_AsStated ==
    (/\ last.op = "load" /\ last.refreshes = 1 /\ last.outcome.kind = "ok"
     /\ last.outcome.keys = {"version", "provider_name"})
    => /\ last.result = "ok"
       /\ oembed.vals["version"] = <<"version", last.outcome.tag>>
       /\ oembed.vals["provider_name"] = <<"provider_name", last.outcome.tag>>
       /\ oembed.date_updated = now

\* C15: a load of an expired row that the provider answers with a document
\* returns normally exactly when the document carries the key of every
\* mapped attribute, and then the instance has the document's values and the
\* time of the load; answered with version and provider_name only, the load
\* raises KeyError (for provider_url), its instance was stamped with the time
\* of the load, and the caller gets no instance and the store is untouched.
C15_PartialResponseRaises ==
    [][(last'.op = "load" /\ last'.refreshes = 1 /\ last'.outcome.kind = "ok")
       => IF Answers(last'.outcome, oembed_map, "Photo")
          THEN /\ last'.result = "ok"
               /\ \A k \in 1..Len(oembed_map) :
                    oembed'.vals[EntryField(oembed_map[k])]
                      = <<EntryProp(oembed_map[k]), last'.outcome.tag>>
               /\ oembed'.date_updated = now'
          ELSE /\ last'.result = "KeyError"
               /\ last'.stamped = now'
               /\ oembed' = oembed /\ ostore' = ostore /\ rows' = rows]_vars

\* C15 witness: a load of an expired row, answered with version and
\* provider_name only, raised KeyError.
C15_Witness ==
    /\ last.op = "load" /\ last.refreshes = 1
    /\ last.outcome.keys = {"version", "provider_name"}
    /\ last.result = "KeyError" /\ last.stamped = now

\* C16: every save() of an oEmbed item makes one oembed_update call, at the
\* time of the save, and writes to the store only after it returned: what
\* save() writes is the row with the date_updated and the mapped values of
\* that call; and a load of a row no later than its date_updated plus its
\* cache_age, as any load that follows a save() within cache_age, makes no
\* oembed_update call.
C16_SaveRefreshesFirst ==
    [][/\ (last'.op = "save" /\ last'.item = OembedItem)
          => /\ last'.refreshes = 1
             /\ last'.stamped = now'
             /\ (ostore' # ostore \/ rows' # rows \/ posts' # posts)
                  => /\ last'.outcome.kind = "ok"
                     /\ ostore'.exists
                     /\ ostore'.date_updated = now'
                     /\ ostore'.cache_age = oembed'.cache_age
                     /\ ostore'.vals = oembed'.vals
                     /\ \A k \in 1..Len(oembed_map) :
                          ostore'.vals[EntryField(oembed_map[k])]
                            = <<EntryProp(oembed_map[k]), last'.outcome.tag>>
       /\ (/\ last'.op = "load" /\ ostore.date_updated # None
           /\ now' <= ostore.date_updated + ostore.cache_age)
          => last'.refreshes = 0]_vars

\* C16 witness: a save() of an already persisted item refreshed it and wrote
\* the new date_updated and values.
C16_Witness ==
    /\ last.op = "save" /\ last.item = OembedItem /\ last.result = "ok"
    /\ ~last.created /\ last.refreshes = 1
    /\ now > 1 /\ ostore.date_updated = now
    /\ ostore.vals["image_url"] = <<"url", last.outcome.tag>>

\* C17: when the provider answers oembed_retrieve with an HTTP error, the
\* caller gets None and no exception under suppress_http_errors = True, and
\* gets the HTTPError under suppress_http_errors = False; a document is
\* returned in both modes.
C17_TwoModes ==
    last.op = "oembed_retrieve" =>
        /\ last.outcome.kind = "HTTPError" =>
              IF last.suppress
              THEN last.result = "ok" /\ last.args.none
              ELSE last.result = "HTTPError"
        /\ last.outcome.kind = "ok" => last.result = "ok" /\ ~last.args.none

\* C17 witness: an HTTP error reached the caller of
\* oembed_retrieve(suppress_http_errors=False).
C17_Witness ==
    /\ last.op = "oembed_retrieve" /\ ~last.suppress
    /\ last.outcome.kind = "HTTPError" /\ last.result = "HTTPError"

\* C18: after item.delete() no Post carries the (post_type, object_id) the
\* item had, its row is gone, and the Posts of every other (post_type,
\* object_id) are what they were.
C18_DeleteCascades ==
    [][last'.op = "delete"
       => LET ty == PostTypeOf(last'.item)
              oid == mem[last'.item].id
          IN  /\ PostsOf(posts', ty, oid) = {}
              /\ RowsOf(rows', ty, oid) = {}
              /\ posts' \subseteq posts
              /\ \A p \in posts :
                   (p.post_type # ty \/ p.object_id # oid) => p \in posts'
              /\ \A r \in rows :
                   (r.post_type # ty \/ r.id # oid) => r \in rows']_vars

\* C18 witness: a delete() took the Post of the item with it and left the
\* Post of another item in place.
C18_Witness ==
    /\ last.op = "delete" /\ last.args.deleted # {}
    /\ PostsOf(posts, last.args.post_type, last.args.object_id) = {}
    /\ posts # {}

\* The records of seq with a date_published stand newest first.
NewestFirst(seq) ==
    \A i, j \in 1..Len(seq) :
        (/\ seq[i].date_published # None /\ seq[j].date_published # None
         /\ seq[i].date_published > seq[j].date_published) => i < j

C20_NullDateLoads ==
    (last.op = "load" /\ ostore.exists /\ ostore.date_updated = None)
    => last.result = "ok" /\ last.refreshes = 0

\* C21: a load or a save() whose refresh found the provider unreachable (no
\* connection, which is not an HTTP error status) returns normally.
C21_ConnectionFailureSwallowed ==
    (/\ last.op \in {"load", "save"} /\ last.item = OembedItem
     /\ last.refreshes = 1 /\ last.outcome.kind = "URLError")
    => last.result = "ok"

\* C22: given a document carrying the keys it needs, oembed_map_values
\* leaves, for every entry that is a single name n of an attribute the
\* instance has, attribute n at the document's value for key n, whatever the
\* length of n, and for every pair (p, f) attribute f at the value for key p.
C22_SingleNameStandsForBoth ==
    (/\ last.op = "oembed_map_values"
     /\ Answers(last.outcome, last.args.map, last.args.variant))
    => /\ last.result = "ok"
       /\ \A k \in 1..Len(last.args.map) :
            LET e == last.args.map[k]
            IN  HasAttrOf(last.args.variant, EntryField(e))
                => /\ EntryField(e) \in DOMAIN oembed.vals
                   /\ oembed.vals[EntryField(e)] = <<EntryProp(e), last.outcome.tag>>

\* The stored row of the oEmbed item, by the primary key of its instance.
StoredRow == CHOOSE r \in OwnRows(OembedItem) : TRUE

\* C23 as stated: get_absolute_url() on an item that has a Post returns the
\* URL built from the item's slug.
C23_AsStated ==
    (last.op = "get_absolute_url" /\ OwnPosts(OembedItem) # {})
    => /\ last.result = "ok"
       /\ last.args.url = [view |-> "tumblelog:detail", slug |-> StoredRow.slug]

\* C23: get_absolute_url() changes neither the instance, nor a Post, nor a
\* row; on an item that has a Post it reads the item's row as a load does:
\* it raises TypeError when the row has no date_updated, makes a refresh
\* when the row has expired and raises what that refresh raises, and
\* otherwise returns the URL of the detail view for the slug of the stored
\* row, whatever the slug of the instance.
C23_ReadsStoredSlug ==
    [][last'.op = "get_absolute_url"
       => /\ UNCHANGED <<mem, rows, posts, oembed, ostore, savedOk>>
          /\ OwnPosts(OembedItem) # {}
              => /\ last'.result = "ok"
                     => last'.args.url
                          = [view |-> "tumblelog:detail", slug |-> StoredRow.slug]
                 /\ IF ostore.date_updated = None
                    THEN last'.result = "TypeError" /\ last'.refreshes = 0
                    ELSE IF now <= ostore.date_updated + ostore.cache_age
                    THEN last'.result = "ok" /\ last'.refreshes = 0
                    ELSE /\ last'.refreshes = 1
                         /\ last'.result = "ok"
                              <=> Answers(last'.outcome, oembed_map, "Photo")]_vars

\* C23 witness: get_absolute_url() on an instance whose slug was changed and
\* not saved returned the URL for the stored slug.
C23_Witness ==
    /\ last.op = "get_absolute_url" /\ last.result = "ok"
    /\ OwnPosts(OembedItem) # {}
    /\ last.args.url.slug = StoredRow.slug
    /\ mem[OembedItem].slug # StoredRow.slug

\* C24: every Post in the store belongs to a stored row, and where that row
\* has a slug the Post carries the same slug, never the empty slug it was
\* created with.
C24_NoPlaceholderPost ==
    \A p \in posts :
        \E r \in rows :
            /\ r.post_type = p.post_type /\ r.id = p.object_id
            /\ r.slug # EmptySlug => p.slug = r.slug

\* What oembed_update raises: KeyError and TypeError from the mapping,
\* URLError and HTTPError from the fetch.
RefreshErrors == {"KeyError", "TypeError", "URLError", "HTTPError"}

\* C25: a save() of an oEmbed item whose refresh raised, as it does whenever
\* the provider gives no document with every mapped key, raises that error
\* and leaves the rows, the Posts and the stored provider data as they were.
C25_FailedRefreshWritesNothing ==
    [][(/\ last'.op = "save" /\ last'.item = OembedItem
        /\ \/ last'.result \in RefreshErrors
           \/ ~Answers(last'.outcome, oembed_map, "Photo"))
       => /\ last'.result \in RefreshErrors
          /\ UNCHANGED <<rows, posts, ostore, savedOk>>]_vars

\* C25 witness: the first save() of a new instance raised out of the refresh
\* and the store is still empty.
C25_Witness ==
    /\ last.op = "save" /\ last.item = OembedItem
    /\ last.result \in {"KeyError", "URLError"}
    /\ oembed.held /\ oembed.date_updated = now
    /\ rows = {} /\ posts = {} /\ ~ostore.exists

\* C26: a load, refreshing or not, leaves the rows, the Posts and the stored
\* provider data of the item as they were; these change only in a step that
\* is a save().
C26_LoadWritesNothing ==
    [][/\ last'.op = "load" => UNCHANGED <<rows, posts, ostore>>
       /\ (rows' # rows \/ posts' # posts \/ ostore' # ostore) => last'.op = "save"]_vars

\* C26 witness: a load refreshed the instance, which now differs from its
\* stored row in date_updated and in the provider's values.
C26_Witness ==
    /\ last.op = "load" /\ last.refreshes = 1 /\ last.result = "ok"
    /\ oembed.date_updated = now /\ ostore.date_updated < now
    /\ oembed.vals # ostore.vals

====
